---- MODULE Spec2Model ----
(***************************************************************************)
(* Model of src/src/alt_text_generator.py (class WCAGAltTextGenerator):    *)
(* the role classifier (_determine_image_role), the context extractor      *)
(* (_get_surrounding_text with its nested is_valid_text), the assembler    *)
(* loop of extract_image_info and generate_alt_text with its client call.  *)
(*                                                                         *)
(* Representation.  Text that the code trims, measures or searches (text   *)
(* nodes, alt, title, anchor and figcaption strings, generated text) is a  *)
(* sequence of one-character strings.  Values that the code only compares  *)
(* or copies (tag names, role, aria-hidden, src, href) are TLA+ strings.   *)
(* A Python dict is a function on its set of keys, so an absent key is a   *)
(* key outside DOMAIN.  The parsed document is the sequence of its text    *)
(* nodes and img elements in document order; an img carries its attribute  *)
(* dict and its chain of ancestor elements, nearest first.                 *)
(***************************************************************************)
EXTENDS Integers, Sequences, FiniteSets, TLC

VARIABLES
    doc,            \* the parsed document: text nodes and img elements in document order
    context_range,  \* _get_surrounding_text's budget parameter
    img,            \* position in doc of the img being processed (0: none)
    pc,             \* position of the control flow
    current,        \* the walk's cursor: a position in doc, 0 for None
    previous_text,  \* the list previous_text
    next_text,      \* the list next_text
    context,        \* the dict returned by _get_surrounding_text
    role_info,      \* the dict returned by _determine_image_role
    images_data,    \* the list images_data of extract_image_info
    client_calls    \* the requests received by self.client.messages.create

vars == <<doc, context_range, img, pc, current, previous_text, next_text,
          context, role_info, images_data, client_calls>>

----------------------------------------------------------------------------
(* Bounds of the model *)

\* most text nodes in a document of the context-extractor specification
MaxTexts == 3
\* largest small budget tried by the context-extractor specification
MaxBudget == 4
\* most nodes (text or img) in a document of the batch specification
MaxNodes == 3

\* context_range's default value
DefaultContextRange == 100

None == 0

----------------------------------------------------------------------------
(* Python string and list primitives the code uses *)

\* the characters str.strip() removes
Whitespace == {" ", "\t", "\n", "\r", "\f"}

RECURSIVE lstrip(_)
lstrip(s) ==
    IF s # <<>> /\ Head(s) \in Whitespace THEN lstrip(Tail(s)) ELSE s

RECURSIVE rstrip(_)
rstrip(s) ==
    IF s # <<>> /\ s[Len(s)] \in Whitespace
    THEN rstrip(SubSeq(s, 1, Len(s) - 1))
    ELSE s

\* str.strip()
strip(s) == rstrip(lstrip(s))

\* pattern in text
Contains(text, pattern) ==
    \E i \in 1..(Len(text) - Len(pattern) + 1) :
        SubSeq(text, i, i + Len(pattern) - 1) = pattern

\* ' '.join(parts)
RECURSIVE join(_)
join(parts) ==
    IF parts = <<>> THEN <<>>
    ELSE IF Len(parts) = 1 THEN parts[1]
    ELSE parts[1] \o <<" ">> \o join(Tail(parts))

\* ''.join(parts)
RECURSIVE concat(_)
concat(parts) ==
    IF parts = <<>> THEN <<>> ELSE parts[1] \o concat(Tail(parts))

\* d.get(key, default)
Get(d, key, default) == IF key \in DOMAIN d THEN d[key] ELSE default

\* the string of n copies of c
Rep(c, n) == [i \in 1..n |-> c]

----------------------------------------------------------------------------
(* is_valid_text *)

code_patterns ==
    << <<"{">>,
       <<"}">>,
       <<"/", "/">>,
       <<"/", "*">>,
       <<"*", "/">>,
       <<"<", "s", "c", "r", "i", "p", "t">>,
       <<"<", "s", "t", "y", "l", "e">>,
       <<"@", "m", "e", "d", "i", "a">>,
       <<"f", "u", "n", "c", "t", "i", "o", "n", "(">>,
       <<"v", "a", "r", " ">>,
       <<"l", "e", "t", " ">>,
       <<"c", "o", "n", "s", "t", " ">>,
       <<".", "c", "s", "s">>,
       <<".", "j", "s">>,
       <<"w", "i", "n", "d", "o", "w", ".">>,
       <<"d", "o", "c", "u", "m", "e", "n", "t", ".">> >>

unwanted_tags == {"script", "style", "code", "noscript"}

\* the mutant of is_valid_text that forgets the parent check
is_valid_text_no_parent(element) ==
    /\ element.text # <<>>
    /\ strip(element.text) # <<>>
    /\ ~ \E k \in DOMAIN code_patterns :
            Contains(strip(element.text), code_patterns[k])

is_valid_text(element) ==
    /\ element.text # <<>>
    /\ element.parent \notin unwanted_tags
    /\ strip(element.text) # <<>>
    /\ ~ \E k \in DOMAIN code_patterns :
            Contains(strip(element.text), code_patterns[k])

----------------------------------------------------------------------------
(* _get_surrounding_text: the two walks *)

\* img_tag.find_previous(string=True), current.find_previous(string=True)
find_previous(d, pos) ==
    LET S == {j \in 1..(pos - 1) : d[j].type = "text"}
    IN  IF S = {} THEN None ELSE CHOOSE j \in S : \A k \in S : k <= j

\* img_tag.find_next(string=True), current.find_next(string=True)
find_next(d, pos) ==
    LET S == {j \in (pos + 1)..Len(d) : d[j].type = "text"}
    IN  IF S = {} THEN None ELSE CHOOSE j \in S : \A k \in S : j <= k

\* the mutant of under_budget that measures ''.join instead of ' '.join
under_budget_unspaced(parts, range) == Len(concat(parts)) < range

\* len(' '.join(parts)) < context_range
under_budget(parts, range) == Len(join(parts)) < range

\* while current and len(' '.join(previous_text)) < context_range: (body)
PrevStep ==
    /\ pc = "prev"
    /\ current # None
    /\ under_budget(previous_text, context_range)
    /\ previous_text' =
          IF is_valid_text(doc[current])
          THEN <<strip(doc[current].text)>> \o previous_text
          ELSE previous_text
    /\ current' = find_previous(doc, current)
    /\ UNCHANGED <<doc, context_range, img, pc, next_text, context,
                   role_info, images_data, client_calls>>

\* the first loop ends; current = img_tag.find_next(string=True)
PrevExit ==
    /\ pc = "prev"
    /\ ~ (current # None /\ under_budget(previous_text, context_range))
    /\ pc' = "next"
    /\ current' = find_next(doc, img)
    /\ UNCHANGED <<doc, context_range, img, previous_text, next_text, context,
                   role_info, images_data, client_calls>>

\* while current and len(' '.join(next_text)) < context_range: (body)
NextStep ==
    /\ pc = "next"
    /\ current # None
    /\ under_budget(next_text, context_range)
    /\ next_text' =
          IF is_valid_text(doc[current])
          THEN next_text \o <<strip(doc[current].text)>>
          ELSE next_text
    /\ current' = find_next(doc, current)
    /\ UNCHANGED <<doc, context_range, img, pc, previous_text, context,
                   role_info, images_data, client_calls>>

\* the second loop ends; return {'before': ..., 'after': ...}
SurroundingTextReturn ==
    /\ pc = "next"
    /\ ~ (current # None /\ under_budget(next_text, context_range))
    /\ context' = [before |-> join(previous_text), after |-> join(next_text)]
    /\ pc' = "assemble"
    /\ UNCHANGED <<doc, context_range, img, current, previous_text, next_text,
                   role_info, images_data, client_calls>>

----------------------------------------------------------------------------
(* Documents of the context-extractor specification *)

\* the code-like substrings that disqualify a fragment, as the filter's
\* description lists them (used for the inputs and in the properties, never
\* by the model of the code, which has its own list code_patterns)
Denylist ==
    { <<"{">>, <<"}">>, <<"/", "/">>, <<"/", "*">>, <<"*", "/">>,
      <<"<", "s", "c", "r", "i", "p", "t">>, <<"<", "s", "t", "y", "l", "e">>,
      <<"@", "m", "e", "d", "i", "a">>,
      <<"f", "u", "n", "c", "t", "i", "o", "n", "(">>,
      <<"v", "a", "r", " ">>, <<"l", "e", "t", " ">>,
      <<"c", "o", "n", "s", "t", " ">>, <<".", "c", "s", "s">>, <<".", "j", "s">>,
      <<"w", "i", "n", "d", "o", "w", ".">>,
      <<"d", "o", "c", "u", "m", "e", "n", "t", ".">> }

PlainImg == [type |-> "img", attrs |-> [src |-> "s1"], ancestors |-> <<>>]

TextNode(parent, text) == [type |-> "text", parent |-> parent, text |-> text]

\* "margin: 10px; /* comment */"
MarginComment ==
    <<"m", "a", "r", "g", "i", "n", ":", " ", "1", "0", "p", "x", ";", " ",
      "/", "*", " ", "c", "o", "m", "m", "e", "n", "t", " ", "*", "/">>

CtxTextPool ==
    { TextNode("p", <<"a">>),
      TextNode("p", <<" ", "b", "c", "\n">>),
      TextNode("p", <<"\n", " ">>),
      TextNode("script", <<"x">>),
      TextNode("p", MarginComment),
      TextNode("div", Rep("w", 40)) }

RECURSIVE Seqs(_, _)
\* the sequences over S of length at most n
Seqs(S, n) ==
    IF n = 0 THEN {<<>>}
    ELSE LET shorter == Seqs(S, n - 1)
         IN  shorter \cup {Append(s, x) : s \in {t \in shorter : Len(t) = n - 1}, x \in S}

\* s with x inserted so that it lands at position k
InsertAt(s, k, x) == SubSeq(s, 1, k - 1) \o <<x>> \o SubSeq(s, k, Len(s))

ShortDocs ==
    {InsertAt(t, k, PlainImg) : <<t, k>> \in
        {<<t, k>> \in Seqs(CtxTextPool, MaxTexts) \X (1..(MaxTexts + 1)) :
            k <= Len(t) + 1}}

\* for each such substring, a document with it inside prose before the img
\* and on its own after the img, each followed by a plain text node
SubstringDocs ==
    { <<TextNode("p", <<"k">>),
        TextNode("p", <<" ", "x">> \o p \o <<"y", "\n">>),
        PlainImg,
        TextNode("div", p),
        TextNode("p", <<"z">>)>> : p \in Denylist }

CtxDocs == ShortDocs \cup SubstringDocs

ImgPositions(d) == {j \in DOMAIN d : d[j].type = "img"}

\* a call _get_surrounding_text(img_tag, context_range) on some document
InitCtx ==
    /\ doc \in CtxDocs
    /\ context_range \in (0..MaxBudget) \cup {DefaultContextRange}
    /\ img \in ImgPositions(doc)
    /\ pc = "prev"
    /\ current = find_previous(doc, img)
    /\ previous_text = <<>>
    /\ next_text = <<>>
    /\ context = <<>>
    /\ role_info = <<>>
    /\ images_data = <<>>
    /\ client_calls = <<>>

NextCtx == PrevStep \/ PrevExit \/ NextStep \/ SurroundingTextReturn

SpecCtx == InitCtx /\ [][NextCtx]_vars

----------------------------------------------------------------------------
(* The parsed tree around an img: elements and the queries the code makes *)

\* an element: tag name, attribute dict, the text strings below it in
\* document order, and the elements below it in document order
Element(name, attrs, strings, descendants) ==
    [name |-> name, attrs |-> attrs, strings |-> strings,
     descendants |-> descendants]

\* img_tag.find_parent(names): the nearest ancestor with one of the names,
\* as its index in the ancestor chain, None when there is none
find_parent(tag, names) ==
    LET S == {i \in DOMAIN tag.ancestors : tag.ancestors[i].name \in names}
    IN  IF S = {} THEN None ELSE CHOOSE i \in S : \A k \in S : i <= k

\* element.find(name): the first descendant with the name, as its index
find(element, name) ==
    LET S == {i \in DOMAIN element.descendants :
                 element.descendants[i].name = name}
    IN  IF S = {} THEN None ELSE CHOOSE i \in S : \A k \in S : i <= k

RECURSIVE stripped_strings(_)
\* the strings of a get_text(strip=True): each stripped, the empty ones dropped
stripped_strings(strings) ==
    IF strings = <<>> THEN <<>>
    ELSE LET t == strip(Head(strings))
         IN  (IF t = <<>> THEN <<>> ELSE <<t>>) \o stripped_strings(Tail(strings))

\* element.get_text(strip=True)
get_text_strip(element) == concat(stripped_strings(element.strings))

----------------------------------------------------------------------------
(* _determine_image_role *)

\* the mutant of is_decorative_tag that ignores the enclosing anchor
is_decorative_tag_no_anchor(img_tag) ==
    \/ ("role" \in DOMAIN img_tag.attrs /\ img_tag.attrs["role"] = "presentation")
    \/ ("aria-hidden" \in DOMAIN img_tag.attrs /\ img_tag.attrs["aria-hidden"] = "true")
    \/ Get(img_tag.attrs, "alt", <<>>) = <<>>

\* the condition of "Check if decorative"
is_decorative_tag(img_tag) ==
    \/ ("role" \in DOMAIN img_tag.attrs /\ img_tag.attrs["role"] = "presentation")
    \/ ("aria-hidden" \in DOMAIN img_tag.attrs /\ img_tag.attrs["aria-hidden"] = "true")
    \/ (/\ Get(img_tag.attrs, "alt", <<>>) = <<>>
        /\ find_parent(img_tag, {"a"}) = None)

\* the role_info dict as first built
initial_role_info ==
    [is_decorative |-> FALSE, is_functional |-> FALSE, is_informative |-> FALSE,
     has_caption |-> FALSE, in_content |-> FALSE, in_header |-> FALSE,
     in_navigation |-> FALSE, caption_text |-> <<>>]

\* the mutant of with_functional that takes only an anchor for functional
with_functional_anchor_only(img_tag, info) ==
    LET parent_link == find_parent(img_tag, {"a"})
    IN  IF parent_link # None
        THEN [info EXCEPT !.is_functional = TRUE]
             @@ [link_text |-> get_text_strip(img_tag.ancestors[parent_link]),
                 link_url |-> Get(img_tag.ancestors[parent_link].attrs, "href", "")]
        ELSE info

\* "Check if functional (part of a link or button)"
with_functional(img_tag, info) ==
    LET parent_link == find_parent(img_tag, {"a"})
    IN  IF parent_link # None \/ find_parent(img_tag, {"button"}) # None
        THEN IF parent_link # None
             THEN [info EXCEPT !.is_functional = TRUE]
                  @@ [link_text |-> get_text_strip(img_tag.ancestors[parent_link]),
                      link_url |-> Get(img_tag.ancestors[parent_link].attrs, "href", "")]
             ELSE [info EXCEPT !.is_functional = TRUE]
        ELSE info

\* "Check for and extract caption"
with_caption(img_tag, info) ==
    LET figure_parent == find_parent(img_tag, {"figure"})
    IN  IF figure_parent # None
        THEN LET figure == img_tag.ancestors[figure_parent]
                 figcaption == find(figure, "figcaption")
             IN  IF figcaption # None
                 THEN [info EXCEPT
                         !.has_caption = TRUE,
                         !.caption_text = get_text_strip(figure.descendants[figcaption])]
                 ELSE info
        ELSE info

\* "Check location context"
with_location(img_tag, info) ==
    [info EXCEPT
        !.in_header = find_parent(img_tag, {"header"}) # None,
        !.in_navigation = find_parent(img_tag, {"nav"}) # None,
        !.in_content = find_parent(img_tag, {"article", "main", "section"}) # None]

\* the mutant of with_informative that sets the flag without the test
with_informative_always(info) == [info EXCEPT !.is_informative = TRUE]

\* "If not decorative or functional, it's informative"
with_informative(info) ==
    IF ~ (info.is_decorative \/ info.is_functional)
    THEN [info EXCEPT !.is_informative = TRUE]
    ELSE info

determine_image_role(img_tag) ==
    IF is_decorative_tag(img_tag)
    THEN [initial_role_info EXCEPT !.is_decorative = TRUE]
    ELSE with_informative(
           with_location(img_tag,
             with_caption(img_tag,
               with_functional(img_tag, initial_role_info))))

----------------------------------------------------------------------------
(* generate_alt_text *)

\* "Error generating alt text: "
ErrorPrefix ==
    <<"E", "r", "r", "o", "r", " ", "g", "e", "n", "e", "r", "a", "t", "i", "n",
      "g", " ", "a", "l", "t", " ", "t", "e", "x", "t", ":", " ">>

\* what self.client.messages.create can do: answer with a text, or raise
GenOutcomes ==
    { [kind |-> "text", text |-> <<" ", "D", "\n">>],
      [kind |-> "raise", text |-> <<"E">>] }

\* the mutant of skips_generation that takes an empty alt for decorative
skips_generation_on_empty_alt(image_data) == image_data["existing_alt"] = <<>>

\* if image_data['role']['is_decorative']: return ""
skips_generation(image_data) == image_data["role"].is_decorative

\* the dict context_info that the prompt is formatted from
context_info(image_data) ==
    LET base ==
          [role |-> IF image_data["role"].is_functional
                    THEN "functional" ELSE "informative",
           existing_alt |-> image_data["existing_alt"],
           title |-> Get(image_data, "title", <<>>),
           caption |-> Get(image_data["role"], "caption_text", <<>>),
           surrounding_text |->
               [before |-> image_data["context"].before,
                after |-> image_data["context"].after]]
    IN  IF image_data["role"].is_functional
        THEN base @@ [link |->
                        [text |-> Get(image_data["role"], "link_text", <<>>),
                         url |-> Get(image_data["role"], "link_url", "")]]
        ELSE base

\* the try block: the stripped text of the response, or the error string
generation_result(outcome) ==
    IF outcome.kind = "text"
    THEN strip(outcome.text)
    ELSE ErrorPrefix \o outcome.text

----------------------------------------------------------------------------
(* extract_image_info *)

\* the next element of soup.find_all('img') after position pos
next_img(d, pos) ==
    LET S == {j \in (pos + 1)..Len(d) : d[j].type = "img"}
    IN  IF S = {} THEN None ELSE CHOOSE j \in S : \A k \in S : j <= k

\* the dict literal "Start with essential fields"
essential_fields(img_tag, info, ctx) ==
    [src |-> Get(img_tag.attrs, "src", ""),
     existing_alt |-> Get(img_tag.attrs, "alt", <<>>),
     role |-> IF info.is_decorative THEN "decorative"
              ELSE IF info.is_functional THEN "functional"
              ELSE "informative",
     context |-> ctx]

\* "Only add title if it exists and is not empty"
with_title(img_tag, data) ==
    LET title == strip(Get(img_tag.attrs, "title", <<>>))
    IN  IF title # <<>> THEN data @@ [title |-> title] ELSE data

\* the mutant of with_caption_field that adds the caption of any figcaption
with_caption_field_unchecked(info, data) ==
    IF info.has_caption THEN data @@ [caption |-> info.caption_text] ELSE data

\* "Only add caption if it exists and is not empty"
with_caption_field(info, data) ==
    IF strip(info.caption_text) # <<>>
    THEN data @@ [caption |-> info.caption_text]
    ELSE data

\* the mutant of with_link_field that does not look at the link text
with_link_field_unchecked(info, data) ==
    IF info.is_functional
    THEN data @@ [link |-> [text |-> Get(info, "link_text", <<>>),
                            url |-> Get(info, "link_url", "")]]
    ELSE data

\* "Add link info only for functional images with actual link text"
with_link_field(info, data) ==
    IF info.is_functional /\ strip(Get(info, "link_text", <<>>)) # <<>>
    THEN data @@ [link |-> [text |-> info["link_text"],
                            url |-> Get(info, "link_url", "")]]
    ELSE data

\* image_data as it stands before the alt text is generated
image_data_of(img_tag, info, ctx) ==
    with_link_field(info,
      with_caption_field(info,
        with_title(img_tag,
          essential_fields(img_tag, info, ctx))))

\* the mutant of records_after_append that leaves out a failed generation
records_after_append_drop_failed(records, data, suggested) ==
    IF Len(suggested) >= Len(ErrorPrefix)
       /\ SubSeq(suggested, 1, Len(ErrorPrefix)) = ErrorPrefix
    THEN records
    ELSE Append(records, data @@ [suggested_alt |-> suggested])

\* image_data['suggested_alt'] = ...; images_data.append(image_data)
records_after_append(records, data, suggested) ==
    Append(records, data @@ [suggested_alt |-> suggested])

\* for img in soup.find_all('img'): role_info = self._determine_image_role(img)
\* and the entry into self._get_surrounding_text(img)
DetermineImageRole ==
    /\ pc = "loop"
    /\ next_img(doc, img) # None
    /\ img' = next_img(doc, img)
    /\ role_info' = determine_image_role(doc[img'])
    /\ previous_text' = <<>>
    /\ next_text' = <<>>
    /\ current' = find_previous(doc, img')
    /\ pc' = "prev"
    /\ UNCHANGED <<doc, context_range, context, images_data, client_calls>>

\* the rest of the loop body: the record, generate_alt_text, the append
AssembleRecord ==
    /\ pc = "assemble"
    /\ LET image_data == image_data_of(doc[img], role_info, context)
           image_data_for_generation == [image_data EXCEPT !["role"] = role_info]
       IN  IF skips_generation(image_data_for_generation)
           THEN /\ images_data' = records_after_append(images_data, image_data, <<>>)
                /\ UNCHANGED client_calls
           ELSE \E outcome \in GenOutcomes :
                /\ client_calls' =
                      Append(client_calls,
                             [img |-> img,
                              request |-> context_info(image_data_for_generation),
                              outcome |-> outcome])
                /\ images_data' =
                      records_after_append(images_data, image_data,
                                           generation_result(outcome))
    /\ pc' = "loop"
    /\ UNCHANGED <<doc, context_range, img, current, previous_text, next_text,
                   context, role_info>>

\* the loop is over: return images_data
ExtractReturn ==
    /\ pc = "loop"
    /\ next_img(doc, img) = None
    /\ pc' = "done"
    /\ UNCHANGED <<doc, context_range, img, current, previous_text, next_text,
                   context, role_info, images_data, client_calls>>

Next ==
    \/ DetermineImageRole
    \/ PrevStep
    \/ PrevExit
    \/ NextStep
    \/ SurroundingTextReturn
    \/ AssembleRecord
    \/ ExtractReturn

----------------------------------------------------------------------------
(* Documents of the single-image and of the batch specification *)

\* a dict with the key when the option holds a value, the empty dict otherwise
Opt(key, option) == IF option = <<>> THEN <<>> ELSE (key :> option[1])

ImgTag(attrs, ancestors) == [type |-> "img", attrs |-> attrs, ancestors |-> ancestors]

RoleOptions == {<<>>, <<"presentation">>, <<"img">>}
AriaHiddenOptions == {<<>>, <<"true">>, <<"false">>}
AltOptions == {<<>>, << <<>> >>, << <<"A">> >>}
TitleOptions == {<<>>, << <<" ", "T">> >>}

AttrsPool ==
    { Opt("role", r) @@ Opt("aria-hidden", h) @@ Opt("alt", a) @@ Opt("title", t)
        @@ [src |-> "s1"] :
      r \in RoleOptions, h \in AriaHiddenOptions, a \in AltOptions, t \in TitleOptions }

Anchor(strings, href) == Element("a", Opt("href", href), strings, <<>>)

AnchorOptions ==
    {<<>>} \cup
    { <<Anchor(s, h)>> :
        s \in {<<>>, << <<" ", "\n">> >>, << <<" ", "G", "o">>, <<" ">>, <<"!", " ">> >>},
        h \in {<<>>, <<"u">>} }

ButtonOptions == {<<>>, <<Element("button", <<>>, <<>>, <<>>)>>}

Figcaption(strings) == Element("figcaption", <<>>, strings, <<>>)

Figure(figcaptions) ==
    Element("figure", <<>>, concat([i \in DOMAIN figcaptions |-> figcaptions[i].strings]),
            figcaptions)

FigureOptions ==
    { <<>>,
      <<Figure(<<>>)>>,
      <<Figure(<<Figcaption(<<>>)>>)>>,
      <<Figure(<<Figcaption(<< <<"\n", " ">> >>)>>)>>,
      <<Figure(<<Figcaption(<< <<" ", "C">>, <<"p", " ">> >>)>>)>>,
      <<Figure(<<Figcaption(<<>>), Figcaption(<< <<"C">> >>)>>)>> }

LocationOptions ==
    { <<>>,
      <<Element("header", <<>>, <<>>, <<>>)>>,
      <<Element("nav", <<>>, <<>>, <<>>)>>,
      <<Element("article", <<>>, <<>>, <<>>)>>,
      <<Element("main", <<>>, <<>>, <<>>)>>,
      <<Element("section", <<>>, <<>>, <<>>)>>,
      <<Element("nav", <<>>, <<>>, <<>>), Element("header", <<>>, <<>>, <<>>),
        Element("main", <<>>, <<>>, <<>>)>> }

AncestorsPool ==
    { a \o b \o f \o l :
      a \in AnchorOptions, b \in ButtonOptions, f \in FigureOptions,
      l \in LocationOptions }

ImagePool == { ImgTag(at, an) : at \in AttrsPool, an \in AncestorsPool }

\* one img between two text nodes
ImageDocs ==
    { <<TextNode("p", <<"a", " ">>), tag, TextNode("code", <<"x">>),
        TextNode("p", <<"b">>)>> : tag \in ImagePool }

PipelineInit(docs) ==
    /\ doc \in docs
    /\ context_range = DefaultContextRange
    /\ img = None
    /\ pc = "loop"
    /\ current = None
    /\ previous_text = <<>>
    /\ next_text = <<>>
    /\ context = <<>>
    /\ role_info = <<>>
    /\ images_data = <<>>
    /\ client_calls = <<>>

\* extract_image_info on a document with one img
InitImage == PipelineInit(ImageDocs)

SpecImage == InitImage /\ [][Next]_vars

\* the nodes of the batch documents: two text nodes and imgs of all three roles
BatchPool ==
    { TextNode("p", <<"a">>),
      TextNode("style", <<"x">>),
      ImgTag([src |-> "d1", alt |-> <<"A">>] @@ ("aria-hidden" :> "true"),
             <<Anchor(<< <<"G">> >>, <<"u">>)>>),
      ImgTag([src |-> "d2"], <<>>),
      ImgTag([src |-> "f1"], <<Anchor(<< <<"G">> >>, <<"u">>)>>),
      ImgTag([src |-> "f2", alt |-> <<"A">>], <<Element("button", <<>>, <<>>, <<>>)>>),
      ImgTag([src |-> "i1", alt |-> <<"A">>],
             <<Figure(<<Figcaption(<< <<"C">> >>)>>)>>) }

BatchDocs == Seqs(BatchPool, MaxNodes)

\* extract_image_info on a document
Init == PipelineInit(BatchDocs)

Spec == Init /\ [][Next]_vars

----------------------------------------------------------------------------
(* Vocabulary of the properties, stated on the document and not on the code *)

\* the position in d of its k-th img, in document order
KthImg(d, k) ==
    CHOOSE j \in ImgPositions(d) : Cardinality({i \in ImgPositions(d) : i <= j}) = k

HasAncestor(tag, name) == \E i \in DOMAIN tag.ancestors : tag.ancestors[i].name = name

HasAttrValue(tag, key, value) == key \in DOMAIN tag.attrs /\ tag.attrs[key] = value

AltEmptyOrAbsent(tag) == "alt" \notin DOMAIN tag.attrs \/ tag.attrs["alt"] = <<>>

\* the three decorative rules
MatchesDecorativeRule(tag) ==
    \/ HasAttrValue(tag, "role", "presentation")
    \/ HasAttrValue(tag, "aria-hidden", "true")
    \/ (AltEmptyOrAbsent(tag) /\ ~ HasAncestor(tag, "a"))

\* some string of the element has something left after trimming
HasVisibleText(element) ==
    \E i \in DOMAIN element.strings : strip(element.strings[i]) # <<>>

\* the nearest enclosing anchor has visible text
AnchorHasVisibleText(tag) ==
    \E i \in DOMAIN tag.ancestors :
        /\ tag.ancestors[i].name = "a"
        /\ \A j \in 1..(i - 1) : tag.ancestors[j].name # "a"
        /\ HasVisibleText(tag.ancestors[i])

\* an enclosing figure contains a figcaption with non-empty trimmed text
FigureHasCaptionText(tag) ==
    \E i \in DOMAIN tag.ancestors :
        /\ tag.ancestors[i].name = "figure"
        /\ \E j \in DOMAIN tag.ancestors[i].descendants :
              /\ tag.ancestors[i].descendants[j].name = "figcaption"
              /\ HasVisibleText(tag.ancestors[i].descendants[j])

\* the qualifying-text filter
Qualifies(node) ==
    /\ strip(node.text) # <<>>
    /\ node.parent \notin {"script", "style", "code", "noscript"}
    /\ \A p \in Denylist : ~ Contains(strip(node.text), p)

RECURSIVE Descending(_)
Descending(S) ==
    IF S = {} THEN <<>>
    ELSE LET m == CHOOSE j \in S : \A k \in S : k <= j
         IN  <<m>> \o Descending(S \ {m})

Reverse(s) == [i \in 1..Len(s) |-> s[Len(s) + 1 - i]]

\* the text nodes before the img, nearest first, and after it, nearest first
TextsBeforeOf(pos) ==
    LET order == Descending({j \in 1..(pos - 1) : doc[j].type = "text"})
    IN  [i \in DOMAIN order |-> doc[order[i]]]

TextsAfterOf(pos) ==
    LET order == Reverse(Descending({j \in (pos + 1)..Len(doc) : doc[j].type = "text"}))
    IN  [i \in DOMAIN order |-> doc[order[i]]]

TextsBefore == TextsBeforeOf(img)

TextsAfter == TextsAfterOf(img)

RECURSIVE Fragments(_)
\* the trimmed texts of the qualifying nodes of a sequence of text nodes
Fragments(nodes) ==
    IF nodes = <<>> THEN <<>>
    ELSE (IF Qualifies(Head(nodes)) THEN <<strip(Head(nodes).text)>> ELSE <<>>)
         \o Fragments(Tail(nodes))

Returned == pc = "assemble"

----------------------------------------------------------------------------
(* Properties *)

\* C1: the role_info of every img has exactly one of is_decorative,
\* is_functional, is_informative set, and the role field of the img's record
\* names the flag that is set.
C1_ExactlyOneRole ==
    img # None =>
        /\ Cardinality({f \in {"is_decorative", "is_functional", "is_informative"} :
                           role_info[f]}) = 1
        /\ pc \in {"loop", "done"} =>
              LET role == images_data[Len(images_data)]["role"]
              IN  /\ role \in {"decorative", "functional", "informative"}
                  /\ role = "decorative" => role_info.is_decorative
                  /\ role = "functional" => role_info.is_functional
                  /\ role = "informative" => role_info.is_informative

C1_Witness ==
    /\ pc = "done"
    /\ role_info.is_functional
    /\ HasAncestor(doc[img], "figure")
    /\ images_data[1]["role"] = "functional"

\* C2: an img is classified decorative exactly when role="presentation", or
\* aria-hidden="true", or its alt is empty or absent and no anchor encloses it.
C2_DecorativeIff ==
    img # None => (role_info.is_decorative <=> MatchesDecorativeRule(doc[img]))

C2_Witness ==
    /\ img # None
    /\ role_info.is_decorative
    /\ HasAttrValue(doc[img], "aria-hidden", "true")
    /\ ~ AltEmptyOrAbsent(doc[img])
    /\ HasAncestor(doc[img], "a")

\* C3: the record of an img classified decorative has the empty string as its
\* suggested alt text, and the client was never called for that img.
C3_DecorativeNeverGenerated ==
    \A k \in DOMAIN images_data :
        images_data[k]["role"] = "decorative" =>
            /\ images_data[k]["suggested_alt"] = <<>>
            /\ \A c \in DOMAIN client_calls : client_calls[c].img # KthImg(doc, k)

C3_Witness ==
    /\ pc = "done"
    /\ images_data[1]["role"] = "decorative"
    /\ images_data[1]["existing_alt"] # <<>>
    /\ "title" \in DOMAIN images_data[1]
    /\ HasAncestor(doc[img], "a")
    /\ client_calls = <<>>

\* C4: when _get_surrounding_text returns, each side's string has reached the
\* budget or holds every qualifying fragment of that side; the list without the
\* fragment added last is under the budget, so the string exceeds the budget by
\* at most the length of that fragment; with budget 100 and three nearest
\* qualifying fragments of 40 characters all three are taken.
C4_SoftBudget ==
    Returned =>
        LET before == Fragments(TextsBefore)
            after == Fragments(TextsAfter)
        IN  /\ Len(context.before) >= context_range \/ Len(previous_text) = Len(before)
            /\ Len(context.after) >= context_range \/ Len(next_text) = Len(after)
            /\ Len(context.after) >= context_range \/ current = None
            /\ previous_text # <<>> =>
                  /\ Len(join(Tail(previous_text))) < context_range
                  /\ Len(context.before) - context_range <= Len(previous_text[1])
            /\ next_text # <<>> =>
                  /\ Len(join(SubSeq(next_text, 1, Len(next_text) - 1))) < context_range
                  /\ Len(context.after) - context_range <= Len(next_text[Len(next_text)])
            /\ (/\ context_range = 100
                /\ Len(before) >= 3
                /\ \A i \in 1..3 : Len(before[i]) = 40)
               => /\ Len(previous_text) = 3
                  /\ Len(context.before) >= 100

C4_Witness ==
    /\ Returned
    /\ context_range = 100
    /\ Len(previous_text) = 3
    /\ Len(context.before) = 122
    /\ \A i \in 1..3 : Len(previous_text[i]) = 40

\* C5: the fragments of each side's string are the trimmed texts of the
\* qualifying nodes among the nearest text nodes of that side, in document
\* order, and nothing else: a node that fails the filter adds nothing to the
\* string, and nodes beyond it are still taken.
C5_OnlyQualifyingText ==
    Returned =>
        /\ \E k \in 0..Len(TextsBefore) :
              previous_text = Reverse(Fragments(SubSeq(TextsBefore, 1, k)))
        /\ \E k \in 0..Len(TextsAfter) :
              next_text = Fragments(SubSeq(TextsAfter, 1, k))
        /\ context.before = join(previous_text)
        /\ context.after = join(next_text)

C5_Witness ==
    /\ Returned
    /\ Len(TextsBefore) >= 3
    /\ TextsBefore[1].text = MarginComment
    /\ TextsBefore[2].parent = "script"
    /\ Qualifies(TextsBefore[3])
    /\ previous_text = <<strip(TextsBefore[3].text)>>

\* C6: a record has a caption field only when a figure encloses the img and
\* contains a figcaption with non-empty trimmed text, and the field is then
\* never the empty string.
C6_CaptionOnlyWithText ==
    \A k \in DOMAIN images_data :
        "caption" \in DOMAIN images_data[k] =>
            /\ FigureHasCaptionText(doc[KthImg(doc, k)])
            /\ strip(images_data[k]["caption"]) # <<>>

C6_Witness ==
    /\ pc = "done"
    /\ "caption" \in DOMAIN images_data[1]
    /\ images_data[1]["caption"] = <<"C", "p">>

\* C7: a record has a link field exactly when the img is functional and its
\* enclosing anchor has visible text after trimming.
C7_LinkIffFunctionalWithText ==
    \A k \in DOMAIN images_data :
        "link" \in DOMAIN images_data[k] <=>
            /\ images_data[k]["role"] = "functional"
            /\ AnchorHasVisibleText(doc[KthImg(doc, k)])

C7_Witness ==
    /\ pc = "done"
    /\ images_data[1]["role"] = "functional"
    /\ HasAncestor(doc[img], "a")
    /\ ~ AnchorHasVisibleText(doc[img])
    /\ "link" \notin DOMAIN images_data[1]

\* the error string of a failed generation
Sentinel(outcome) == ErrorPrefix \o outcome.text

\* every qualifying fragment of each side, as the default budget gives them
\* for texts that together stay under it
WholeContextOf(pos) ==
    [before |-> join(Reverse(Fragments(TextsBeforeOf(pos)))),
     after |-> join(Fragments(TextsAfterOf(pos)))]

\* what the generator left for the img at pos: nothing when it was not
\* called, else its trimmed text or the error string
SuggestedFor(pos) ==
    LET C == {c \in DOMAIN client_calls : client_calls[c].img = pos}
    IN  IF C = {} THEN <<>>
        ELSE LET outcome == client_calls[CHOOSE c \in C : TRUE].outcome
             IN  IF outcome.kind = "raise" THEN Sentinel(outcome) ELSE strip(outcome.text)

\* C8: the records are those of the imgs processed so far, one each and in
\* document order, each complete and each what its own img, its own context
\* and its own generation make it, whatever happened to the other imgs; a
\* failed generation leaves its error string in that img's record; on return
\* there is one record per img.
C8_OneRecordPerImage ==
    /\ Len(images_data) <= Cardinality(ImgPositions(doc))
    /\ pc = "done" => Len(images_data) = Cardinality(ImgPositions(doc))
    /\ pc \in {"loop", "done"} =>
          Len(images_data) = Cardinality({j \in ImgPositions(doc) : j <= img})
    /\ \A c, e \in DOMAIN client_calls :
          client_calls[c].img = client_calls[e].img => c = e
    /\ \A k \in DOMAIN images_data :
          LET pos == KthImg(doc, k)
              tag == doc[pos]
          IN  /\ {"src", "existing_alt", "role", "context", "suggested_alt"}
                    \subseteq DOMAIN images_data[k]
              /\ images_data[k]["src"] = Get(tag.attrs, "src", "")
              /\ images_data[k]["existing_alt"] = Get(tag.attrs, "alt", <<>>)
              /\ images_data[k]["suggested_alt"] = SuggestedFor(pos)
              /\ images_data[k] =
                    image_data_of(tag, determine_image_role(tag), WholeContextOf(pos))
                       @@ [suggested_alt |-> SuggestedFor(pos)]

C8_Witness ==
    /\ pc = "done"
    /\ Len(images_data) = 3
    /\ Len(client_calls) = 3
    /\ client_calls[2].outcome.kind = "raise"
    /\ images_data[2]["suggested_alt"] = Sentinel(client_calls[2].outcome)
    /\ images_data[1]["suggested_alt"] = <<"D">>
    /\ images_data[3]["suggested_alt"] = <<"D">>

\* C9: in every role_info, has_caption is set exactly when caption_text is
\* not empty.
C9_HasCaptionIffText ==
    img # None => (role_info.has_caption <=> role_info.caption_text # <<>>)

\* C10: an img that matches a decorative rule is decorative, also inside an
\* anchor or a button, and its role_info then carries no caption, location or
\* link facts; any other img is functional exactly when an anchor or a button
\* encloses it and informative exactly when neither does.
C10_PriorityOrder ==
    img # None =>
        LET tag == doc[img]
            enclosed == HasAncestor(tag, "a") \/ HasAncestor(tag, "button")
        IN  /\ MatchesDecorativeRule(tag) => role_info.is_decorative
            /\ ~ role_info.is_decorative =>
                  /\ role_info.is_functional <=> enclosed
                  /\ role_info.is_informative <=> ~ enclosed
            /\ role_info.is_decorative =>
                  /\ ~ role_info.has_caption
                  /\ ~ role_info.in_content
                  /\ ~ role_info.in_header
                  /\ ~ role_info.in_navigation
                  /\ role_info.caption_text = <<>>
                  /\ "link_text" \notin DOMAIN role_info
                  /\ "link_url" \notin DOMAIN role_info

C10_Witness ==
    /\ img # None
    /\ role_info.is_decorative
    /\ HasAncestor(doc[img], "a")
    /\ HasAncestor(doc[img], "button")
    /\ FigureHasCaptionText(doc[img])
    /\ HasAncestor(doc[img], "header")

====
